---- MODULE Spec2Model ----
(***************************************************************************)
(* autotender/annotator.py: the annotation placement and rendering engine. *)
(*                                                                         *)
(* Python strings whose case or content the code inspects (colours, the    *)
(* OCR tokens, the match target, the file suffix) are sequences of         *)
(* one-character strings, so that lower(), strip() and `in` are computed.  *)
(* A dict is a record; `k in d` is k \in DOMAIN d.                         *)
(*                                                                         *)
(* The libraries are taken by their contracts: the rasterizer gives one    *)
(* image per page, in page order; OCR gives parallel token lists, or       *)
(* raises; decoding the input and merging a page do not fail.  Fonts       *)
(* (get_font) are left out: no coordinate, colour or output depends on     *)
(* them.  What OCR reports on a PDF page is fixed when the page is first   *)
(* scanned; on an image, which is drawn on between the scans, each scan    *)
(* may report other tokens.                                                *)
(***************************************************************************)
EXTENDS Integers, Sequences, FiniteSets, TLC

VARIABLES
    config_path,  \* annotate()'s config_path argument, with what the path holds
    input_file,   \* annotate()'s input_file: whether it exists, and its suffix
    pdf2image,    \* whether `from pdf2image import convert_from_path` succeeds
    pc,           \* the position of the run
    config,       \* the dict load_config returned
    result,       \* "running", "returned", or the exception that ended the run
    errkey,       \* the key of a KeyError
    called,       \* the renderer annotate() invoked
    npages,       \* len(images) in annotate_pdf
    page_number,  \* annotate_pdf's loop index (0-based)
    page,         \* the rasterized page of this iteration: its height
    ann_index,    \* how many annotations of the current loop are consumed
    canvas,       \* the image's draw operations, or the overlay under construction
    writer,       \* PdfWriter: the pages added so far
    output,       \* the output file
    writes,       \* how many times the output file was opened for writing
    target,       \* find_text_positions: the last target
    ocr,          \* find_text_positions: the last pytesseract DICT
    matches,      \* find_text_positions: the last result
    last          \* the annotation consumed last on this page: whether
                  \* find_text_positions returned for it, whether it was drawn

vars == <<config_path, input_file, pdf2image, pc, config, result, errkey, called,
          npages, page_number, page, ann_index, canvas, writer, output, writes,
          target, ocr, matches, last>>

(***************************************************************************)
(* Bounds of the model.                                                    *)
(***************************************************************************)
MaxAnns == 2      \* annotations in a config
MaxPages == 2     \* pages of an input PDF
MaxTokens == 2    \* tokens OCR reports on one page

\* The sequences over S of length at most n.
SeqsUpTo(S, n) == UNION {[1..k -> S] : k \in 0..n}

(***************************************************************************)
(* str.lower(), str.strip(), `a in b` on strings.                          *)
(***************************************************************************)
UpperAlpha == <<"A","B","C","D","E","F","G","H","I","J","K","L","M",
                "N","O","P","Q","R","S","T","U","V","W","X","Y","Z">>
LowerAlpha == <<"a","b","c","d","e","f","g","h","i","j","k","l","m",
                "n","o","p","q","r","s","t","u","v","w","x","y","z">>

ToLower == [c \in {UpperAlpha[i] : i \in 1..26} |->
                LowerAlpha[CHOOSE i \in 1..26 : UpperAlpha[i] = c]]

LowerChar(c) == IF c \in DOMAIN ToLower THEN ToLower[c] ELSE c

Lower(s) == [i \in 1..Len(s) |-> LowerChar(s[i])]

Whitespace == {" ", "\t", "\n"}

RECURSIVE LStrip(_)
LStrip(s) == IF s # <<>> /\ Head(s) \in Whitespace THEN LStrip(Tail(s)) ELSE s

RECURSIVE RStrip(_)
RStrip(s) ==
    IF s # <<>> /\ s[Len(s)] \in Whitespace THEN RStrip(SubSeq(s, 1, Len(s) - 1)) ELSE s

Strip(s) == RStrip(LStrip(s))

\* Python's `t in w` for strings: t occurs in w as a contiguous run.
StrIn(t, w) == \E k \in 0..(Len(w) - Len(t)) : SubSeq(w, k + 1, k + Len(t)) = t

\* dict.get(k, d)
Get(d, k, default) == IF k \in DOMAIN d THEN d[k] ELSE default

(***************************************************************************)
(* String literals of the source.                                          *)
(***************************************************************************)
RED == <<"r","e","d">>
BLUE == <<"b","l","u","e">>
ImageExts == {<<".","j","p","g">>, <<".","j","p","e","g">>, <<".","p","n","g">>}
PdfExt == <<".","p","d","f">>

(***************************************************************************)
(* The inputs of a run.                                                    *)
(***************************************************************************)
\* Annotation records as a config file may hold them.
AnnManual ==
    [text |-> "PAID", x |-> 100, y |-> 200, size |-> 20, color |-> <<"B","l","u","e">>]
AnnAnchor ==
    [text |-> "OK", match |-> <<"T","o","t","a","l">>, offset_x |-> 5, offset_y |-> -5,
     x |-> 7, y |-> 9, color |-> <<"R","E","D">>]
AnnBare == [text |-> "DUE", match |-> <<"s","u","b">>]
AnnNoY == [text |-> "N", x |-> 100, color |-> <<"G","r","e","e","n">>]
AnnNoText == [match |-> <<"t","o","t","a","l">>, x |-> 3]
AnnPool == {AnnManual, AnnAnchor, AnnBare, AnnNoY, AnnNoText}

\* A JSON value is [t |-> "dict", v |-> record of JSON values], [t |-> "list", ...],
\* [t |-> "str", ...], [t |-> "num"] or [t |-> "null"]. A top-level list or string
\* carries `has`: whether "annotations" is an element (a substring) of it. The
\* elements of an `annotations` list are annotation records, or a JSON number.
JsonNum == [t |-> "num"]
JsonNull == [t |-> "null"]
AnnLists == SeqsUpTo(AnnPool, MaxAnns) \cup {<<JsonNum>>}
Docs ==
    {JsonNum, JsonNull}
    \cup {[t |-> k, has |-> h] : k \in {"list", "str"}, h \in BOOLEAN}
    \cup {[t |-> "dict", v |-> [version |-> JsonNum]]}
    \cup {[t |-> "dict", v |-> [annotations |-> a]] :
            a \in {JsonNum, JsonNull, [t |-> "str", has |-> FALSE],
                   [t |-> "dict", v |-> [text |-> JsonNum]]}}
    \cup {[t |-> "dict", v |-> [annotations |-> [t |-> "list", v |-> a]]] : a \in AnnLists}

ConfigPaths ==
    {[kind |-> "none"], [kind |-> "path", exists |-> FALSE],
     [kind |-> "path", exists |-> TRUE, json |-> FALSE]}
    \cup {[kind |-> "path", exists |-> TRUE, json |-> TRUE, doc |-> d] : d \in Docs}

Suffixes ==
    {<<".","j","p","g">>, <<".","J","P","E","G">>, <<".","P","n","g">>,
     <<".","p","d","f">>, <<".","P","D","F">>, <<".","t","x","t">>, <<>>}

\* What pytesseract reports for one word: its text and its box.
TokTotal == [text |-> <<"T","o","t","a","l",":">>, left |-> 300, top |-> 100,
             width |-> 50, height |-> 20]
TokSub == [text |-> <<"S","u","b","T","O","T","A","L"," ">>, left |-> 10, top |-> 20,
           width |-> 90, height |-> 10]
OcrTokens == {TokTotal, TokSub}

\* pytesseract.image_to_data(..., Output.DICT): parallel lists, one entry per token.
OcrDict(toks) ==
    [text |-> [i \in 1..Len(toks) |-> toks[i].text],
     left |-> [i \in 1..Len(toks) |-> toks[i].left],
     top |-> [i \in 1..Len(toks) |-> toks[i].top],
     width |-> [i \in 1..Len(toks) |-> toks[i].width],
     height |-> [i \in 1..Len(toks) |-> toks[i].height]]
OcrOutputs == {OcrDict(toks) : toks \in SeqsUpTo(OcrTokens, MaxTokens)}

\* image_to_data raising instead (the engine is missing, or fails on the image).
OcrRaises == [raised |-> TRUE]

\* The input PDF: the pixel height of rasterized page n (0-based). Pages of two
\* sizes alternate, so that a page's own height is told from its neighbour's.
PageHeight(n) == IF n % 2 = 0 THEN 792 ELSE 600

(***************************************************************************)
(* load_config                                                             *)
(***************************************************************************)
DefaultConfig ==
    [annotations |-> <<[text |-> "SAMPLE", x |-> 50, y |-> 50, size |-> 14, color |-> RED]>>]

Raise(e) == [ok |-> FALSE, cfg |-> <<>>, err |-> e]

\* load_config falling back to the defaults when the config file does not exist.
load_config_DefaultsWhenMissing(path) ==
    IF path.kind = "none" \/ ~path.exists
    THEN [ok |-> TRUE, cfg |-> DefaultConfig, err |-> "none"]
    ELSE IF ~path.json THEN Raise("JSONDecodeError")
    ELSE LET cfg == path.doc IN
        IF cfg.t \in {"num", "null"} THEN Raise("TypeError")
        ELSE IF cfg.t \in {"list", "str"}
            THEN (IF cfg.has THEN Raise("TypeError") ELSE Raise("ValueError"))
        ELSE IF "annotations" \notin DOMAIN cfg.v \/ cfg.v.annotations.t # "list"
            THEN Raise("ValueError")
        ELSE [ok |-> TRUE, cfg |-> [annotations |-> cfg.v.annotations.v], err |-> "none"]

\* `"annotations" not in cfg` is a key test on a dict, a membership test on a list
\* and a substring test on a string (cfg["annotations"] then raises TypeError), and
\* raises TypeError on a number or null.
load_config(path) ==
    IF path.kind = "none" THEN [ok |-> TRUE, cfg |-> DefaultConfig, err |-> "none"]
    ELSE IF ~path.exists THEN Raise("FileNotFoundError")
    ELSE IF ~path.json THEN Raise("JSONDecodeError")
    ELSE LET cfg == path.doc IN
        IF cfg.t \in {"num", "null"} THEN Raise("TypeError")
        ELSE IF cfg.t \in {"list", "str"}
            THEN (IF cfg.has THEN Raise("TypeError") ELSE Raise("ValueError"))
        ELSE IF "annotations" \notin DOMAIN cfg.v \/ cfg.v.annotations.t # "list"
            THEN Raise("ValueError")
        ELSE [ok |-> TRUE, cfg |-> [annotations |-> cfg.v.annotations.v], err |-> "none"]

(***************************************************************************)
(* find_text_positions                                                     *)
(***************************************************************************)
RECURSIVE find_loop(_, _, _, _)
find_loop(data, tgt, i, positions) ==
    IF i > Len(data.text) THEN positions
    ELSE find_loop(data, tgt, i + 1,
            IF StrIn(Lower(tgt), Lower(Strip(data.text[i])))
            THEN Append(positions, <<data.left[i], data.top[i], data.width[i], data.height[i]>>)
            ELSE positions)

\* find_text_positions comparing with == where the source has `in`.
RECURSIVE find_loop_Exact(_, _, _, _)
find_loop_Exact(data, tgt, i, positions) ==
    IF i > Len(data.text) THEN positions
    ELSE find_loop_Exact(data, tgt, i + 1,
            IF Lower(tgt) = Lower(Strip(data.text[i]))
            THEN Append(positions, <<data.left[i], data.top[i], data.width[i], data.height[i]>>)
            ELSE positions)

find_text_positions_Exact(data, tgt) == find_loop_Exact(data, tgt, 1, <<>>)

find_text_positions(data, tgt) == find_loop(data, tgt, 1, <<>>)

(***************************************************************************)
(* Coordinate resolution and colour mapping of the two renderers.          *)
(***************************************************************************)
\* An element of the annotations list that is a dict (a JSON number is not).
IsDict(e) == "t" \notin DOMAIN e

\* annotate_image: the coordinates of one annotation, m being the OCR matches
\* (<<>> when the annotation carries no `match`).
ResolveImage(ann, m) ==
    IF "match" \in DOMAIN ann
    THEN IF m # <<>>
         THEN [ok |-> TRUE, key |-> "",
               x |-> m[1][1] + Get(ann, "offset_x", 0),
               y |-> m[1][2] + Get(ann, "offset_y", 0)]
         ELSE [ok |-> TRUE, key |-> "", x |-> Get(ann, "x", 50), y |-> Get(ann, "y", 50)]
    ELSE IF "x" \notin DOMAIN ann THEN [ok |-> FALSE, key |-> "x", x |-> 0, y |-> 0]
    ELSE IF "y" \notin DOMAIN ann THEN [ok |-> FALSE, key |-> "y", x |-> 0, y |-> 0]
    ELSE [ok |-> TRUE, key |-> "", x |-> ann.x, y |-> ann.y]

\* ResolvePdf taking the last match where the source takes matches[0].
ResolvePdf_LastMatch(ann, m, height) ==
    IF "match" \in DOMAIN ann /\ m # <<>>
    THEN [x |-> m[Len(m)][1] + Get(ann, "offset_x", 0),
          y |-> height - m[Len(m)][2] - Get(ann, "offset_y", 0)]
    ELSE [x |-> Get(ann, "x", 50), y |-> Get(ann, "y", 50)]

\* ResolvePdf flipping the axis of the fallback coordinates too.
ResolvePdf_FlipFallback(ann, m, height) ==
    IF "match" \in DOMAIN ann /\ m # <<>>
    THEN [x |-> m[1][1] + Get(ann, "offset_x", 0),
          y |-> height - m[1][2] - Get(ann, "offset_y", 0)]
    ELSE IF "match" \in DOMAIN ann
    THEN [x |-> Get(ann, "x", 50), y |-> height - Get(ann, "y", 50)]
    ELSE [x |-> Get(ann, "x", 50), y |-> Get(ann, "y", 50)]

\* annotate_pdf: the coordinates of one annotation on a page of the given height.
ResolvePdf(ann, m, height) ==
    IF "match" \in DOMAIN ann /\ m # <<>>
    THEN [x |-> m[1][1] + Get(ann, "offset_x", 0),
          y |-> height - m[1][2] - Get(ann, "offset_y", 0)]
    ELSE [x |-> Get(ann, "x", 50), y |-> Get(ann, "y", 50)]

\* FillRGB comparing the colour name as written, without lower().
FillRGB_CaseSensitive(color) ==
    IF color = RED THEN <<1, 0, 0>>
    ELSE IF color = BLUE THEN <<0, 0, 1>>
    ELSE <<0, 0, 0>>

\* annotate_pdf: the fill colour set for an annotation's colour name.
FillRGB(color) ==
    IF Lower(color) = RED THEN <<1, 0, 0>>
    ELSE IF Lower(color) = BLUE THEN <<0, 0, 1>>
    ELSE <<0, 0, 0>>

\* MergedPage merging every overlay onto the first page, as annotate_pdf_coupon does.
MergedPage_FirstPage(n, c) == [src |-> 0, overlay |-> c.ops, pagesize |-> c.pagesize]

\* annotate_pdf: page `n` of a freshly opened reader, the overlay merged onto it.
MergedPage(n, c) == [src |-> n, overlay |-> c.ops, pagesize |-> c.pagesize]

\* Route comparing the suffix as written, without lower().
Route_CaseSensitive(suffix) ==
    IF suffix \in ImageExts THEN "image"
    ELSE IF suffix = PdfExt THEN "pdf"
    ELSE "unsupported"

\* annotate: the renderer for a suffix.
Route(suffix) ==
    LET ext == Lower(suffix) IN
    IF ext \in ImageExts THEN "image"
    ELSE IF ext = PdfExt THEN "pdf"
    ELSE "unsupported"

(***************************************************************************)
(* The run of annotate(input_file, output_file, config_path).              *)
(***************************************************************************)
NoOcr == OcrDict(<<>>)
NoLast == [renderer |-> "none", ann |-> <<>>, searched |-> FALSE, drew |-> FALSE]
NoOutput == [kind |-> "none", content |-> <<>>]
\* A canvas on which nothing is drawn; for an overlay, pagesize is the page height.
BlankCanvas == [pagesize |-> 0, fill |-> <<0, 0, 0>>, size |-> 12, ops |-> <<>>]
NoPage == [height |-> 0, scanned |-> FALSE, data |-> NoOcr]

Idle ==
    /\ config = <<>>
    /\ result = "running"
    /\ errkey = ""
    /\ called = "none"
    /\ npages = 0
    /\ page_number = 0
    /\ page = NoPage
    /\ ann_index = 0
    /\ canvas = BlankCanvas
    /\ writer = <<>>
    /\ output = NoOutput
    /\ writes = 0
    /\ matches = <<>>
    /\ last = NoLast

Init ==
    /\ config_path \in ConfigPaths
    /\ input_file \in [exists : BOOLEAN, suffix : Suffixes]
    /\ pdf2image \in BOOLEAN
    /\ pc = "start"
    /\ target = <<>>
    /\ ocr = NoOcr
    /\ Idle

\* annotate, line 164: config = load_config(config_path)
annotate_load ==
    /\ pc = "start"
    /\ LET r == load_config(config_path) IN
        IF r.ok
        THEN /\ config' = r.cfg
             /\ pc' = "loaded"
             /\ UNCHANGED result
        ELSE /\ pc' = "done"
             /\ result' = r.err
             /\ UNCHANGED config
    /\ UNCHANGED <<config_path, input_file, pdf2image, errkey, called, npages, page_number,
                   page, ann_index, canvas, writer, output, writes, target, ocr, matches, last>>

\* annotate, lines 165-176: the existence test and the dispatch on the suffix
annotate_route ==
    /\ pc = "loaded"
    /\ IF ~input_file.exists
       THEN /\ pc' = "done"
            /\ result' = "FileNotFoundError"
            /\ UNCHANGED called
       ELSE LET r == Route(input_file.suffix) IN
            IF r = "unsupported"
            THEN /\ pc' = "done"
                 /\ result' = "ValueError"
                 /\ UNCHANGED called
            ELSE /\ pc' = r
                 /\ called' = r
                 /\ UNCHANGED result
    /\ UNCHANGED <<config_path, input_file, pdf2image, config, errkey, npages, page_number,
                   page, ann_index, canvas, writer, output, writes, target, ocr, matches, last>>

\* annotate_image, lines 75-76: the image is decoded, nothing is drawn yet
annotate_image_open ==
    /\ pc = "image"
    /\ pc' = "image_loop"
    /\ canvas' = BlankCanvas
    /\ ann_index' = 0
    /\ UNCHANGED <<config_path, input_file, pdf2image, config, result, errkey, called, npages,
                   page_number, page, writer, output, writes, target, ocr, matches, last>>

\* annotate_image, lines 78-95: one iteration of the loop. OCR reads the image as
\* drawn so far, so every call may report other tokens.
annotate_image_step ==
    /\ pc = "image_loop"
    /\ ann_index < Len(Get(config, "annotations", <<>>))
    /\ ann_index' = ann_index + 1
    /\ LET ann == config.annotations[ann_index + 1] IN
        IF ~IsDict(ann)
        THEN /\ pc' = "done" /\ result' = "AttributeError"
             /\ last' = [renderer |-> "image", ann |-> ann, searched |-> FALSE, drew |-> FALSE]
             /\ UNCHANGED <<errkey, canvas, target, ocr, matches>>
        ELSE IF "text" \notin DOMAIN ann
        THEN /\ pc' = "done" /\ result' = "KeyError" /\ errkey' = "text"
             /\ last' = [renderer |-> "image", ann |-> ann, searched |-> FALSE, drew |-> FALSE]
             /\ UNCHANGED <<canvas, target, ocr, matches>>
        ELSE IF "match" \in DOMAIN ann
        THEN \E data \in OcrOutputs \cup {OcrRaises} :
                IF data = OcrRaises
                THEN /\ pc' = "done" /\ result' = "TesseractError"
                     /\ last' = [renderer |-> "image", ann |-> ann, searched |-> FALSE,
                                 drew |-> FALSE]
                     /\ UNCHANGED <<errkey, canvas, target, ocr, matches>>
                ELSE
                LET m == find_text_positions(data, ann.match)
                    r == ResolveImage(ann, m)
                IN /\ target' = ann.match /\ ocr' = data /\ matches' = m
                   /\ canvas' = [canvas EXCEPT !.ops = Append(@,
                        [x |-> r.x, y |-> r.y, text |-> ann.text,
                         fill |-> Get(ann, "color", RED), size |-> Get(ann, "size", 12)])]
                   /\ last' = [renderer |-> "image", ann |-> ann, searched |-> TRUE,
                               drew |-> TRUE]
                   /\ UNCHANGED <<pc, result, errkey>>
        ELSE LET r == ResolveImage(ann, <<>>) IN
            IF ~r.ok
            THEN /\ pc' = "done" /\ result' = "KeyError" /\ errkey' = r.key
                 /\ last' = [renderer |-> "image", ann |-> ann, searched |-> FALSE,
                             drew |-> FALSE]
                 /\ UNCHANGED <<canvas, target, ocr, matches>>
            ELSE /\ canvas' = [canvas EXCEPT !.ops = Append(@,
                        [x |-> r.x, y |-> r.y, text |-> ann.text,
                         fill |-> Get(ann, "color", RED), size |-> Get(ann, "size", 12)])]
                 /\ last' = [renderer |-> "image", ann |-> ann, searched |-> FALSE,
                             drew |-> TRUE]
                 /\ UNCHANGED <<pc, result, errkey, target, ocr, matches>>
    /\ UNCHANGED <<config_path, input_file, pdf2image, config, called, npages, page_number,
                   page, writer, output, writes>>

\* annotate_image, lines 97-98: img.save(output_file)
annotate_image_save ==
    /\ pc = "image_loop"
    /\ ann_index = Len(Get(config, "annotations", <<>>))
    /\ output' = [kind |-> "image", content |-> canvas.ops]
    /\ writes' = writes + 1
    /\ pc' = "done"
    /\ result' = "returned"
    /\ UNCHANGED <<config_path, input_file, pdf2image, config, errkey, called, npages,
                   page_number, page, ann_index, canvas, writer, target, ocr, matches, last>>

\* annotate_pdf, lines 108-115: the import of the rasterizer, then the rasterizing
annotate_pdf_import ==
    /\ pc = "pdf"
    /\ IF ~pdf2image
       THEN /\ pc' = "done"
            /\ result' = "returned"
            /\ UNCHANGED <<npages, writer, page_number>>
       ELSE /\ npages' \in 1..MaxPages
            /\ writer' = <<>>
            /\ page_number' = 0
            /\ pc' = "pdf_page"
            /\ UNCHANGED result
    /\ UNCHANGED <<config_path, input_file, pdf2image, config, errkey, called, page,
                   ann_index, canvas, output, writes, target, ocr, matches, last>>

\* annotate_pdf, lines 117-120: the next rasterized page and its empty overlay. What
\* OCR reports on the page is drawn when the page is first scanned.
annotate_pdf_page ==
    /\ pc = "pdf_page"
    /\ page_number < npages
    /\ page' = [height |-> PageHeight(page_number), scanned |-> FALSE, data |-> NoOcr]
    /\ canvas' = [BlankCanvas EXCEPT !.pagesize = PageHeight(page_number)]
    /\ ann_index' = 0
    /\ pc' = "pdf_loop"
    /\ last' = NoLast
    /\ UNCHANGED <<config_path, input_file, pdf2image, config, result, errkey, called, npages,
                   page_number, writer, output, writes, target, ocr, matches>>

\* annotate_pdf, lines 122-140: one iteration of the inner loop
annotate_pdf_step ==
    /\ pc = "pdf_loop"
    /\ ann_index < Len(Get(config, "annotations", <<>>))
    /\ ann_index' = ann_index + 1
    /\ LET ann == config.annotations[ann_index + 1] IN
        IF ~IsDict(ann)
        THEN /\ pc' = "done" /\ result' = "AttributeError"
             /\ last' = [renderer |-> "pdf", ann |-> ann, searched |-> FALSE, drew |-> FALSE]
             /\ UNCHANGED <<errkey, canvas, page, target, ocr, matches>>
        ELSE \E data \in (IF "match" \in DOMAIN ann /\ ~page.scanned
                          THEN OcrOutputs \cup {OcrRaises} ELSE {page.data}) :
            IF data = OcrRaises
            THEN /\ pc' = "done" /\ result' = "TesseractError"
                 /\ last' = [renderer |-> "pdf", ann |-> ann, searched |-> FALSE, drew |-> FALSE]
                 /\ UNCHANGED <<errkey, canvas, page, target, ocr, matches>>
            ELSE
            LET search == "match" \in DOMAIN ann
                m == IF search THEN find_text_positions(data, ann.match) ELSE <<>>
                r == ResolvePdf(ann, m, page.height)
                set == [canvas EXCEPT !.size = Get(ann, "size", 12),
                                      !.fill = FillRGB(Get(ann, "color", RED))]
            IN /\ IF search
                  THEN /\ page' = [page EXCEPT !.scanned = TRUE, !.data = data]
                       /\ target' = ann.match /\ ocr' = data /\ matches' = m
                  ELSE UNCHANGED <<page, target, ocr, matches>>
               /\ IF "text" \notin DOMAIN ann
                  THEN /\ pc' = "done" /\ result' = "KeyError" /\ errkey' = "text"
                       /\ canvas' = set
                       /\ last' = [renderer |-> "pdf", ann |-> ann, searched |-> search,
                                   drew |-> FALSE]
                  ELSE /\ canvas' = [set EXCEPT !.ops = Append(@,
                            [x |-> r.x, y |-> r.y, text |-> ann.text,
                             fill |-> set.fill, size |-> set.size])]
                       /\ last' = [renderer |-> "pdf", ann |-> ann, searched |-> search,
                                   drew |-> TRUE]
                       /\ UNCHANGED <<pc, result, errkey>>
    /\ UNCHANGED <<config_path, input_file, pdf2image, config, called, npages, page_number,
                   writer, output, writes>>

\* annotate_pdf_merge writing the document after each page.
annotate_pdf_merge_Writes ==
    /\ pc = "pdf_loop"
    /\ ann_index = Len(Get(config, "annotations", <<>>))
    /\ writer' = Append(writer, MergedPage(page_number, canvas))
    /\ output' = [kind |-> "pdf", content |-> writer']
    /\ writes' = writes + 1
    /\ page_number' = page_number + 1
    /\ pc' = "pdf_page"
    /\ UNCHANGED <<config_path, input_file, pdf2image, config, result, errkey, called, npages,
                   page, ann_index, canvas, target, ocr, matches, last>>

\* annotate_pdf, lines 142-149: the overlay is saved, merged onto the page of the
\* same number and the page added to the writer
annotate_pdf_merge ==
    /\ pc = "pdf_loop"
    /\ ann_index = Len(Get(config, "annotations", <<>>))
    /\ writer' = Append(writer, MergedPage(page_number, canvas))
    /\ page_number' = page_number + 1
    /\ pc' = "pdf_page"
    /\ UNCHANGED <<config_path, input_file, pdf2image, config, result, errkey, called, npages,
                   page, ann_index, canvas, output, writes, target, ocr, matches, last>>

\* annotate_pdf, lines 151-154: writer.write(f_out)
annotate_pdf_write ==
    /\ pc = "pdf_page"
    /\ page_number = npages
    /\ output' = [kind |-> "pdf", content |-> writer]
    /\ writes' = writes + 1
    /\ pc' = "done"
    /\ result' = "returned"
    /\ UNCHANGED <<config_path, input_file, pdf2image, config, errkey, called, npages,
                   page_number, page, ann_index, canvas, writer, target, ocr, matches, last>>

Next ==
    \/ annotate_load
    \/ annotate_route
    \/ annotate_image_open
    \/ annotate_image_step
    \/ annotate_image_save
    \/ annotate_pdf_import
    \/ annotate_pdf_page
    \/ annotate_pdf_step
    \/ annotate_pdf_merge
    \/ annotate_pdf_write

Spec == Init /\ [][Next]_vars

(***************************************************************************)
(* find_text_positions alone, on inputs drawn from bounded sets.           *)
(***************************************************************************)
FindTokens ==
    OcrTokens \cup
    {[text |-> <<>>, left |-> 0, top |-> 0, width |-> 600, height |-> 792],
     [text |-> <<"\t","t","o","T","a","l","s","\n">>, left |-> 40, top |-> 60,
      width |-> 55, height |-> 12],
     [text |-> <<"T","o","t"," ","a","l">>, left |-> 70, top |-> 80, width |-> 45,
      height |-> 11]}
FindTargets ==
    {<<"T","o","t","a","l">>, <<"t","o","t","a","l">>, <<"t","a","l",":">>,
     <<" ","t","o","t","a","l">>, <<>>}

FindInit ==
    /\ config_path = [kind |-> "none"]
    /\ input_file = [exists |-> FALSE, suffix |-> <<>>]
    /\ pdf2image = FALSE
    /\ pc = "find"
    /\ target \in FindTargets
    /\ ocr \in {OcrDict(toks) : toks \in SeqsUpTo(FindTokens, MaxTokens)}
    /\ Idle

find_call ==
    /\ pc = "find"
    /\ matches' = find_text_positions(ocr, target)
    /\ pc' = "found"
    /\ UNCHANGED <<config_path, input_file, pdf2image, config, result, errkey, called, npages,
                   page_number, page, ann_index, canvas, writer, output, writes, target, ocr,
                   last>>

SpecFind == FindInit /\ [][find_call]_vars

(***************************************************************************)
(* Properties.  The text comparisons are restated here without lower() and  *)
(* `in`, so that the properties do not repeat the definitions they judge.   *)
(***************************************************************************)
\* Two characters that are the same letter, whatever their case.
LetterIndex ==
    [c \in {UpperAlpha[i] : i \in 1..26} \cup {LowerAlpha[i] : i \in 1..26} |->
        CHOOSE i \in 1..26 : c \in {UpperAlpha[i], LowerAlpha[i]}]

SameLetter(c, d) ==
    \/ c = d
    \/ c \in DOMAIN LetterIndex /\ d \in DOMAIN LetterIndex /\ LetterIndex[c] = LetterIndex[d]

\* a and b are equal up to letter case.
EqualIgnoringCase(a, b) ==
    Len(a) = Len(b) /\ \A i \in 1..Len(a) : SameLetter(a[i], b[i])

\* tgt occurs in the whitespace-stripped word, up to letter case.
Mentions(word, tgt) ==
    LET w == Strip(word) IN
    \E pre \in 0..Len(w) :
        /\ pre + Len(tgt) <= Len(w)
        /\ \A j \in 1..Len(tgt) : SameLetter(w[pre + j], tgt[j])

\* The indices of the tokens of an OCR result that mention tgt.
Hits(data, tgt) == {i \in 1..Len(data.text) : Mentions(data.text[i], tgt)}

BoxAt(data, i) == <<data.left[i], data.top[i], data.width[i], data.height[i]>>

Loaded == "annotations" \in DOMAIN config

Fatal == result \notin {"running", "returned"}

\* C8: find_text_positions returns, in OCR emission order, the box of exactly the
\* tokens whose stripped, lowercased text contains the lowercased target, each box
\* taken from its token's index, and the empty list when no token matches.
C8_FindTextPositions ==
    pc = "found" =>
        LET H == Hits(ocr, target) IN
        /\ Len(matches) = Cardinality(H)
        /\ \A i \in H : matches[Cardinality({j \in H : j <= i})] = BoxAt(ocr, i)

\* A token that does not match precedes one that contains the target without
\* being equal to it.
C8_Witness ==
    /\ pc = "found"
    /\ Len(ocr.text) = 2
    /\ Hits(ocr, target) = {2}
    /\ target # <<>>
    /\ ~EqualIgnoringCase(Strip(ocr.text[2]), target)
    /\ matches = <<BoxAt(ocr, 2)>>
    /\ BoxAt(ocr, 1) # BoxAt(ocr, 2)

\* C7: annotate routes on the suffix alone, case-insensitively, once the config is
\* loaded and the input exists; any other suffix is a ValueError with no renderer
\* invoked and no file opened for writing.
C7_Routing ==
    LET sfx == input_file.suffix
        image == \E e \in {<<".","j","p","g">>, <<".","j","p","e","g">>, <<".","p","n","g">>} :
                    EqualIgnoringCase(sfx, e)
        pdf == EqualIgnoringCase(sfx, <<".","p","d","f">>)
    IN
    /\ called # "none" => Loaded /\ input_file.exists
    /\ called = "image" => image
    /\ called = "pdf" => pdf
    /\ (pc \notin {"start", "loaded", "find", "found"} /\ Loaded /\ input_file.exists) =>
        /\ image => called = "image"
        /\ pdf => called = "pdf"
        /\ ~image /\ ~pdf =>
            /\ called = "none" /\ result = "ValueError"
            /\ writes = 0 /\ output = NoOutput /\ canvas.ops = <<>>

\* An upper-case suffix reached the image renderer.
C7_Witness ==
    /\ called = "image"
    /\ input_file.suffix = <<".","J","P","E","G">>
    /\ pc = "image_loop"

\* The load of the config is over and failed.
LoadFailed == pc = "done" /\ ~Loaded

\* The config file exists and parses to a dict.
DictDoc == config_path.kind = "path" /\ config_path.exists /\ config_path.json
           /\ config_path.doc.t = "dict"

\* The document's top-level `annotations` is missing or is no list.
NoAnnotationsList ==
    /\ DictDoc
    /\ \/ "annotations" \notin DOMAIN config_path.doc.v
       \/ config_path.doc.v.annotations.t # "list"

LastOp == canvas.ops[Len(canvas.ops)]

\* The fill C9 gives a colour name.
FillOf(color) ==
    IF EqualIgnoringCase(color, <<"r","e","d">>) THEN <<1, 0, 0>>
    ELSE IF EqualIgnoringCase(color, <<"b","l","u","e">>) THEN <<0, 0, 1>>
    ELSE <<0, 0, 0>>

ColorOf(ann) == IF "color" \in DOMAIN ann THEN ann.color ELSE <<"r","e","d">>

\* Operation k of an overlay carries the fill of annotation k's colour.
FillsFollowConfig(ops) ==
    \A k \in 1..Len(ops) : ops[k].fill = FillOf(ColorOf(config.annotations[k]))

\* C9: in PDF rendering "red" in any case, or no colour, fills RGB(1,0,0), "blue" in
\* any case RGB(0,0,1), any other name RGB(0,0,0), and each annotation is drawn with
\* the fill of its own colour, on the overlay under construction and on every
\* merged and written page.
C9_ColorMapping ==
    called = "pdf" =>
        /\ FillsFollowConfig(canvas.ops)
        /\ \A k \in 1..Len(writer) : FillsFollowConfig(writer[k].overlay)
        /\ \A k \in 1..Len(output.content) : FillsFollowConfig(output.content[k].overlay)

\* An upper-case "RED" drawn red right after an annotation of another fill.
C9_Witness ==
    /\ called = "pdf"
    /\ Len(canvas.ops) >= 2
    /\ ColorOf(config.annotations[Len(canvas.ops)]) = <<"R","E","D">>
    /\ LastOp.fill = <<1, 0, 0>>
    /\ canvas.ops[Len(canvas.ops) - 1].fill # <<1, 0, 0>>

OffsetX(ann) == IF "offset_x" \in DOMAIN ann THEN ann.offset_x ELSE 0
OffsetY(ann) == IF "offset_y" \in DOMAIN ann THEN ann.offset_y ELSE 0

\* The first token, in emission order, that mentions tgt.
FirstHit(data, tgt) == CHOOSE i \in Hits(data, tgt) : \A j \in Hits(data, tgt) : i <= j

\* C1: an annotation with `match` for which OCR reports a matching token is drawn
\* from the first such token (x0, y0): at (x0+offset_x, y0+offset_y) on an image, at
\* (x0+offset_x, page_height-y0-offset_y) on a PDF page, offsets defaulting to 0 and
\* a literal x/y ignored.
C1_AnchorCoordinates ==
    (last.searched /\ last.drew /\ Hits(ocr, last.ann.match) # {}) =>
        LET i == FirstHit(ocr, last.ann.match) IN
        /\ LastOp.x = ocr.left[i] + OffsetX(last.ann)
        /\ last.renderer = "image" => LastOp.y = ocr.top[i] + OffsetY(last.ann)
        /\ last.renderer = "pdf" => LastOp.y = page.height - ocr.top[i] - OffsetY(last.ann)

\* On the second PDF page two tokens of different boxes match an annotation that
\* carries offsets and a literal x.
C1_Witness ==
    /\ last.renderer = "pdf" /\ last.searched /\ last.drew
    /\ page_number = 1
    /\ Cardinality(Hits(ocr, last.ann.match)) = 2
    /\ BoxAt(ocr, 1) # BoxAt(ocr, 2)
    /\ {"x", "offset_x", "offset_y"} \subseteq DOMAIN last.ann
    /\ LastOp.x = ocr.left[1] + last.ann.offset_x

\* C2: an annotation with `match` for which OCR reports no matching token is still
\* drawn, at its literal x/y (50 for an absent one) with no flip and no offset, and
\* the run goes on.
C2_AnchorMissFallback ==
    (last.searched /\ Hits(ocr, last.ann.match) = {} /\ "text" \in DOMAIN last.ann) =>
        /\ last.drew
        /\ LastOp.text = last.ann.text
        /\ LastOp.x = (IF "x" \in DOMAIN last.ann THEN last.ann.x ELSE 50)
        /\ LastOp.y = (IF "y" \in DOMAIN last.ann THEN last.ann.y ELSE 50)
        /\ ~Fatal

\* On a PDF page whose tokens do not match, an annotation without x and y is drawn
\* at (50, 50), and an annotation is still to come.
C2_Witness ==
    /\ last.renderer = "pdf" /\ last.searched /\ last.drew
    /\ Len(ocr.text) >= 1
    /\ Hits(ocr, last.ann.match) = {}
    /\ DOMAIN last.ann \cap {"x", "y"} = {}
    /\ LastOp.x = 50 /\ LastOp.y = 50
    /\ pc = "pdf_loop" /\ ann_index < Len(config.annotations)

\* C3: the output is written at most once, only when every annotation of every page
\* or image is drawn and merged; a run that aborts, or that returns because the
\* rasterizer is missing, writes nothing.
C3_OutputOnlyAtEnd ==
    /\ writes <= 1
    /\ (writes = 0) = (output = NoOutput)
    /\ output.kind = "image" =>
        pc = "done" /\ result = "returned" /\ Len(output.content) = Len(config.annotations)
    /\ output.kind = "pdf" =>
        /\ pc = "done" /\ result = "returned"
        /\ Len(output.content) = npages
        /\ \A k \in 1..Len(output.content) :
            Len(output.content[k].overlay) = Len(config.annotations)
    /\ Fatal => output = NoOutput
    /\ (pc = "done" /\ called = "pdf" /\ ~pdf2image) => output = NoOutput

\* A PDF run aborted after a page was merged.
C3_Witness ==
    /\ Fatal
    /\ called = "pdf"
    /\ writer # <<>>
    /\ output = NoOutput

ManualOnly ==
    /\ Loaded
    /\ \A i \in 1..Len(config.annotations) :
        LET a == config.annotations[i] IN
        IsDict(a) /\ {"text", "x", "y"} \subseteq DOMAIN a /\ "match" \notin DOMAIN a

\* C4: a run on a config of manual placements only ends with an output on which the
\* (text, colour) pairs drawn are those of the config, for an image and for a PDF,
\* whether or not the OCR engine and the rasterizer are there, and calls no OCR.
C4_ManualPlacementsDrawn ==
    (pc = "done" /\ called # "none" /\ ManualOnly) =>
        LET anns == {config.annotations[i] : i \in 1..Len(config.annotations)} IN
        /\ target = <<>> /\ ocr = NoOcr
        /\ output.kind # "none"
        /\ output.kind = "image" =>
            {<<output.content[k].text, output.content[k].fill>> :
                k \in 1..Len(output.content)} = {<<a.text, ColorOf(a)>> : a \in anns}
        /\ output.kind = "pdf" =>
            \A k \in 1..Len(output.content) :
                {<<output.content[k].overlay[j].text, output.content[k].overlay[j].fill>> :
                    j \in 1..Len(output.content[k].overlay)}
                = {<<a.text, FillOf(ColorOf(a))>> : a \in anns}

\* C5: a record without `match` that lacks x or y ends the run with a KeyError when
\* it is consumed, by either renderer: it is not drawn and no output is written.
C5_MissingCoordinateFatal ==
    (/\ last.renderer # "none"
     /\ IsDict(last.ann)
     /\ "match" \notin DOMAIN last.ann
     /\ {"x", "y"} \ DOMAIN last.ann # {}) =>
        /\ ~last.drew
        /\ result = "KeyError"
        /\ output = NoOutput

====
